---- MODULE Spec2Model ----
(***************************************************************************)
(* Model of the automation-hat crate: the shared LED channel state         *)
(* (lights.rs) and the peripheral wrappers that mirror their logical state *)
(* on indicator LEDs (digital_output.rs, relay.rs, digital_input.rs,       *)
(* analog_input.rs), wired as AutomationHAT::new wires them (lib.rs).      *)
(*                                                                         *)
(* Brightness values (f64 in the source) are fixed-point integers in units *)
(* of 1/One, a unit in which every normalised ADC reading                  *)
(* raw / 10 * 2.048 / 25.85 = raw * 2048 / 258500 is an exact integer.     *)
(***************************************************************************)
EXTENDS Integers, Sequences, FiniteSets, TLC

\* ------------------------------------------------------------------ bounds
\* Operations (method calls of the application) started in one behaviour.
MaxCalls == 3
\* Operations started in one behaviour of the specification with fairness.
MaxLockCalls == 2

\* ------------------------------------------------------- program constants
\* The value 1.0: 10 * 25.85 * 1000 units (analog_input.rs, normalisation).
One == 258500
\* 2.048 in units of 1/1000 (analog_input.rs, normalisation).
FullScale == 2048
\* LED::max_brightness.
max_brightness == 255
\* Length of the SN3218 output buffer, [0u8; 18].
NumChannels == 18

\* LED channels assigned by AutomationHAT::new.
analog_input_1_led == 0
analog_input_2_led == 1
output_1_led == 3
relay_1_no_led == 6
relay_1_nc_led == 7
input_1_led == 14
\* The channels of the indicators of the wrappers not modelled as objects.
analog_input_3_led == 2
output_2_led == 4
output_3_led == 5
input_2_led == 13
input_3_led == 12
relay_2_no_led == 8
relay_2_nc_led == 9
relay_3_no_led == 10
relay_3_nc_led == 11
\* Channels the board leaves unassigned, given to LED::new by an application.
user_led_1 == 15
user_led_2 == 16
\* Channel of a handle an application creates on an SN3218 of its own.
second_driver_led == 17
\* A channel outside 0..17, which LED::new accepts like any other u8.
beyond_led == 18

\* ADC channel of analog input one (AnalogInput::new(.., 0)).
analog_input_1_channel == 0
\* ADC channel of analog input two (AnalogInput::new(.., 1)).
analog_input_2_channel == 1
\* Channels of the ADS1015 accepted by AnalogInput::read.
NumAdcChannels == 4
\* The multiplexer before the first select: on none of the four inputs.
NoAdcChannel == NumAdcChannels

Half == One \div 2

Threads == {"t1", "t2"}
None == "none"

\* The LED handles of the program and the channel each was created with.
UserLeds == {"led_user_1", "led_user_2"}
\* Further handles of an application: a clone of led_user_1, a handle on a
\* second driver instance, a handle of a channel beyond the buffer.
HandleLeds == {"led_user_1", "led_user_1_clone", "led_second", "led_beyond"}
Leds == {"led_analog_1", "led_analog_2", "led_output_1", "led_relay_no",
         "led_relay_nc", "led_input_1"} \cup UserLeds \cup HandleLeds

channel(h) ==
    CASE h = "led_analog_1" -> analog_input_1_led
      [] h = "led_analog_2" -> analog_input_2_led
      [] h = "led_output_1" -> output_1_led
      [] h = "led_relay_no" -> relay_1_no_led
      [] h = "led_relay_nc" -> relay_1_nc_led
      [] h = "led_input_1"  -> input_1_led
      [] h = "led_user_1"   -> user_led_1
      [] h = "led_user_2"   -> user_led_2
      [] h = "led_user_1_clone" -> user_led_1
      [] h = "led_second"   -> second_driver_led
      [] h = "led_beyond"   -> beyond_led

\* The SN3218 instance each handle was created with (LED::driver): the one
\* AutomationHAT::new opens, or a second one opened by the application.
Drivers == {"board", "second"}
driver(h) == IF h = "led_second" THEN "second" ELSE "board"

\* lib.rs:84-91  HatType
HatTypes == {"AutomationHAT", "AutomationPHAT", "AutomationHATMini"}

\* Faulty variant: an input indicator on the channel of a relay indicator.
led_channels_reused(hat_type) ==
    IF hat_type = "AutomationHAT"
    THEN [analog_input_1_led |-> analog_input_1_led,
          output_1_led |-> output_1_led,
          input_3_led |-> relay_3_nc_led,
          relay_3_nc_led |-> relay_3_nc_led]
    ELSE << >>
\* lib.rs:274-311  the LED handles AutomationHAT::new creates for a board, by
\* the indicator each is for, with the channel passed to LED::new; the pHAT
\* and the HAT Mini get none.
led_channels(hat_type) ==
    IF hat_type = "AutomationHAT"
    THEN [analog_input_1_led |-> analog_input_1_led,
          analog_input_2_led |-> analog_input_2_led,
          analog_input_3_led |-> analog_input_3_led,
          output_1_led |-> output_1_led,
          output_2_led |-> output_2_led,
          output_3_led |-> output_3_led,
          input_1_led |-> input_1_led,
          input_2_led |-> input_2_led,
          input_3_led |-> input_3_led,
          relay_1_no_led |-> relay_1_no_led,
          relay_1_nc_led |-> relay_1_nc_led,
          relay_2_no_led |-> relay_2_no_led,
          relay_2_nc_led |-> relay_2_nc_led,
          relay_3_no_led |-> relay_3_no_led,
          relay_3_nc_led |-> relay_3_nc_led]
    ELSE << >>

\* The peripheral wrappers of the program.
DigitalOutputs == {"output_1"}
Relays == {"relay_1"}
DigitalInputs == {"input_1"}
AnalogInputs == {"analog_1", "analog_2"}

\* Raw conversion results the ADC delivers.
RawValues == {0, 100, 200}

\* Brightness arguments an application passes to set_brightness / set.
BrightnessArgs == {0 - Half, 0, Half, One + Half}

Channels == 0 .. (NumChannels - 1)
Zero18 == [c \in Channels |-> 0]

\* ------------------------------------------------------------ pure helpers
\* Faulty variant: the range check without its lower bound.
ValidUpperOnly(b) == b <= One
\* lights.rs:102  brightness < 0.0 || brightness > 1.0 is rejected.
Valid(b) == b >= 0 /\ b <= One

\* lights.rs:107  (brightness * max_brightness as f64) as u8: the cast
\* truncates toward zero and saturates at the ends of u8.
ToByte(b) ==
    IF b <= 0 THEN 0
    ELSE IF (b * max_brightness) \div One > 255 THEN 255
    ELSE (b * max_brightness) \div One

\* Faulty variant: a buffer holding the byte of the caller's channel only.
ValuesOwnOnly(ls, ch) ==
    [c \in Channels |-> IF c = ch /\ c \in DOMAIN ls THEN ls[c] ELSE 0]
\* lights.rs:116-126  the values array built from the whole map, in a call
\* on channel ch.
ValuesOf(ls, ch) ==
    [c \in Channels |-> IF c \in DOMAIN ls THEN ls[c] ELSE 0]

RECURSIVE Pow2(_)
Pow2(n) == IF n = 0 THEN 1 ELSE 2 * Pow2(n - 1)

\* Faulty variant: a mask that enables every channel.
MaskOfEveryChannel(values) == Pow2(NumChannels) - 1
\* lights.rs:117-126  led_mask |= 1u32 << channel for every nonzero byte of
\* a channel below 18: the sum stays below 2^18, within the u32.
RECURSIVE MaskUpTo(_, _)
MaskUpTo(values, n) ==
    IF n = 0 THEN 0
    ELSE MaskUpTo(values, n - 1)
         + (IF values[n - 1] > 0 THEN Pow2(n - 1) ELSE 0)
MaskOf(values) == MaskUpTo(values, NumChannels)

\* The byte the flush takes for channel ch: 0 if the map has no entry.
ByteOf(ls, ch) == IF ch \in DOMAIN ls THEN ls[ch] ELSE 0

\* lights.rs:113  led_state.insert(self.channel, value)
Insert(ls, ch, byte) ==
    [c \in DOMAIN ls \cup {ch} |-> IF c = ch THEN byte ELSE ls[c]]

\* ------------------------------------------------------------------- state
VARIABLES
    LED_STATE,     \* the process-wide HashMap<u8, u8>: channel -> byte
    state_lock,    \* the Mutex around LED_STATE
    driver_lock,   \* the Mutex around the SN3218 driver
    hw_mask,       \* enable mask last programmed into the SN3218
    hw_values,     \* the 18 PWM bytes last programmed into the SN3218
    driver2_lock,  \* the Mutex around the second SN3218 instance
    hw2_mask,      \* enable mask last programmed into the second SN3218
    hw2_values,    \* the 18 PWM bytes last programmed into the second SN3218
    live,          \* the LED handles that exist (created and not dropped)
    brightness,    \* LED::brightness of every handle
    auto_light,    \* the _auto_light flag the wrappers were built with
    leds_bound,    \* whether the wrappers were built with Some(led)
    pin_level,     \* level of the GPIO line of every output and relay
    value,         \* the pub value field of every wrapper that has one
    adc_lock,      \* the Mutex around the ADS1015 driver
    adc_channel,   \* the input the ADS1015 multiplexer is set to
    thr,           \* per thread: the call it executes and its locals
    last,          \* the call that returned most recently, with its result
    hist,          \* per application LED: its last two returned calls
    calls          \* operations started so far

leds == <<LED_STATE, state_lock, driver_lock, hw_mask, hw_values,
          driver2_lock, hw2_mask, hw2_values>>
\* What the objects of the program were constructed with, and which handles
\* there are.
config == <<auto_light, leds_bound, live>>
vars == <<LED_STATE, state_lock, driver_lock, hw_mask, hw_values,
          driver2_lock, hw2_mask, hw2_values, live, brightness, auto_light, leds_bound, pin_level, value,
          adc_lock, adc_channel, thr, last, hist, calls>>

FreeLock == [holder |-> None, poisoned |-> FALSE]

LedMethods == {"on", "off", "toggle", "set_brightness", "set"}

\* A thread: the call it executes (op on obj with argument on), where it is
\* (pc), the set_brightness call in progress (handle h, argument b, locals
\* values and mask, result sbres), the call's result (res, ret), and what
\* the call did to the transports: the LED transactions issued by the
\* current set_brightness (txns), whether one failed (txfail), whether the
\* call drove its GPIO line (pinset), whether its own GPIO or ADC
\* transaction failed (iofail). For a method of an LED handle, b0 and
\* y0 are the handle's brightness and its channel's byte when it was called;
\* for AnalogInput::read, rd is the normalised reading it obtained.
IdleThread ==
    [pc |-> "idle", op |-> None, obj |-> None, on |-> FALSE,
     h |-> None, b |-> 0, values |-> Zero18, mask |-> 0, sbres |-> None,
     res |-> None, ret |-> 0, txns |-> <<>>, txfail |-> FALSE,
     pinset |-> FALSE, iofail |-> FALSE, b0 |-> 0, y0 |-> 0, rd |-> 0]

Init ==
    /\ LED_STATE = << >>
    /\ state_lock = FreeLock
    /\ driver_lock = FreeLock
    /\ hw_mask = 0              \* the SN3218 powers up with every
    /\ hw_values = Zero18       \* register cleared
    /\ driver2_lock = FreeLock
    /\ hw2_mask = 0
    /\ hw2_values = Zero18
    /\ live = Leds \ {"led_user_1_clone"}
    /\ brightness = [h \in Leds |-> 0]
    /\ auto_light \in BOOLEAN
    /\ leds_bound \in BOOLEAN
    /\ pin_level = [o \in DigitalOutputs \cup Relays |-> FALSE]
    /\ value = [o \in DigitalOutputs \cup Relays |-> FALSE]
              @@ [a \in AnalogInputs |-> 0]
    /\ adc_lock = FreeLock
    /\ adc_channel = NoAdcChannel
    /\ thr = [t \in Threads |-> IdleThread]
    /\ last = IdleThread
    /\ hist = [h \in UserLeds |-> <<>>]
    /\ calls = 0

\* A thread is between calls.
AtRest(t) == thr[t].pc = "idle"
\* &mut self: an object is used by one call at a time; the objects of a
\* thread that panicked are gone with it.
InUse(o) == \E t \in Threads : ~AtRest(t) /\ (thr[t].obj = o \/ thr[t].h = o)

\* Threads at rest are interchangeable: a call starts on the first of them.
CanStart(t) ==
    /\ AtRest(t)
    /\ t = "t1" \/ ~AtRest("t1")
    /\ calls < MaxCalls

\* The thread goes on as n; a call that has returned leaves its record in
\* last and its thread at rest.
Last2(q) == IF Len(q) > 2 THEN Tail(q) ELSE q
Settle(t, n) ==
    IF n.pc = "done"
    THEN /\ thr' = [thr EXCEPT ![t] = IdleThread]
         /\ last' = n
         /\ hist' = IF n.obj \in UserLeds
                    THEN [hist EXCEPT ![n.obj] = Last2(Append(@,
                             [op |-> n.op, res |-> n.res,
                              b0 |-> n.b0, y0 |-> n.y0]))]
                    ELSE hist
    ELSE thr' = [thr EXCEPT ![t] = n] /\ UNCHANGED <<last, hist>>

\* Faulty variant: a lock that excludes nobody.
CanLockAlways(l) == TRUE
\* Mutex::lock returns once no other thread holds the mutex.
CanLock(l) == l.holder = None

\* set_brightness returned r to an application call of an LED method.
Finish(tr) ==
    IF tr.op \in LedMethods
    THEN [tr EXCEPT !.pc = "done", !.res = tr.sbres, !.ret = 0,
                    !.values = Zero18, !.mask = 0]
    ELSE [tr EXCEPT !.pc = "sb_ret", !.values = Zero18, !.mask = 0]

\* lights.rs:101-107  entry of set_brightness on handle h with argument v:
\* the range check, then self.brightness = brightness.
Enter(tr, h, v) ==
    IF Valid(v)
    THEN [tr EXCEPT !.h = h, !.b = v, !.sbres = None, !.txns = <<>>,
                    !.pc = "lock_state"]
    ELSE Finish([tr EXCEPT !.h = h, !.b = v, !.sbres = "err", !.txns = <<>>])
\* Faulty variant: the brightness cached before the range check.
EnterBrightnessUnchecked(h, v) == [brightness EXCEPT ![h] = v]
\* Faulty variant: one cached brightness for all handles of a channel.
EnterBrightnessShared(h, v) ==
    IF Valid(v)
    THEN [g \in Leds |-> IF channel(g) = channel(h) THEN v ELSE brightness[g]]
    ELSE brightness
EnterBrightness(h, v) ==
    IF Valid(v) THEN [brightness EXCEPT ![h] = v] ELSE brightness

NewCall(op, obj) == [IdleThread EXCEPT !.pc = "call", !.op = op, !.obj = obj]

\* Faulty variant: a toggle that always turns on.
ToggleAlwaysOn(b) == One
\* lights.rs:79-85  toggle: on if the cached brightness is 0.0, else off.
ToggleTarget(b) == IF b = 0 THEN One ELSE 0

\* ---------------------------------------------------- LED method calls
LedCall(t, h, op, v) ==
    /\ CanStart(t)
    /\ h \in live
    /\ ~InUse(h)
    /\ Settle(t, Enter([NewCall(op, h) EXCEPT
                            !.b0 = brightness[h],
                            !.y0 = ByteOf(LED_STATE, channel(h))], h, v))
    /\ brightness' = EnterBrightness(h, v)
    /\ calls' = calls + 1
    /\ UNCHANGED <<leds, config, pin_level, value, adc_lock, adc_channel>>

\* lights.rs:58-60
LED_on(t) == \E h \in UserLeds : LedCall(t, h, "on", One)
\* lights.rs:67-69
LED_off(t) == \E h \in UserLeds : LedCall(t, h, "off", 0)
\* lights.rs:79-85
LED_toggle(t) ==
    \E h \in UserLeds : LedCall(t, h, "toggle", ToggleTarget(brightness[h]))
\* lights.rs:101
LED_set_brightness(t) ==
    \E h \in UserLeds, v \in BrightnessArgs : LedCall(t, h, "set_brightness", v)
\* lights.rs:144-146
LED_set(t) ==
    \E h \in UserLeds, v \in BrightnessArgs : LedCall(t, h, "set", v)

\* ------------------------------------------------ set_brightness, stepwise
\* A panic unwinds the thread: every guard it holds is dropped while
\* panicking, which poisons the mutex.
Unwind(l, t) ==
    IF l.holder = t THEN [holder |-> None, poisoned |-> TRUE] ELSE l
\* Faulty variant: a guard that is never dropped.
ReleaseNever(l, t) == l
\* A guard going out of scope at the end of the function unlocks the mutex.
Release(l, t) ==
    IF l.holder = t THEN [l EXCEPT !.holder = None] ELSE l
Panicked(tr) ==
    [tr EXCEPT !.pc = "panicked", !.res = "panic", !.sbres = "panic",
               !.values = Zero18, !.mask = 0]

\* lights.rs:109-126  lock LED_STATE, insert, build values and led_mask.
set_brightness_lock_state(t) ==
    /\ thr[t].pc = "lock_state"
    /\ CanLock(state_lock)
    /\ IF state_lock.poisoned
       THEN /\ Settle(t, Panicked(thr[t]))
            /\ UNCHANGED <<LED_STATE, state_lock>>
       ELSE LET ch == channel(thr[t].h)
                ls == Insert(LED_STATE, ch, ToByte(thr[t].b))
                vs == ValuesOf(ls, ch)
            IN /\ LED_STATE' = ls
               /\ state_lock' = [state_lock EXCEPT !.holder = t]
               /\ thr' = [thr EXCEPT ![t].pc = "lock_driver",
                                     ![t].values = vs,
                                     ![t].mask = MaskOf(vs)]
               /\ UNCHANGED <<last, hist>>
    /\ adc_lock' =
           IF state_lock.poisoned THEN Unwind(adc_lock, t) ELSE adc_lock
    /\ UNCHANGED <<driver_lock, hw_mask, hw_values, driver2_lock, hw2_mask,
                   hw2_values, brightness, calls, config, pin_level, value,
                   adc_channel>>

\* The mutex of driver d, and the assignments to the state of driver d.
DriverLock(d) == IF d = "board" THEN driver_lock ELSE driver2_lock
SetDriverLock(d, l) ==
    /\ driver_lock' = (IF d = "board" THEN l ELSE driver_lock)
    /\ driver2_lock' = (IF d = "board" THEN driver2_lock ELSE l)
SetMask(d, m) ==
    /\ hw_mask' = (IF d = "board" THEN m ELSE hw_mask)
    /\ hw2_mask' = (IF d = "board" THEN hw2_mask ELSE m)
SetValues(d, vs) ==
    /\ hw_values' = (IF d = "board" THEN vs ELSE hw_values)
    /\ hw2_values' = (IF d = "board" THEN hw2_values ELSE vs)

\* lights.rs:128  self.driver.lock().unwrap()
set_brightness_lock_driver(t) ==
    /\ thr[t].pc = "lock_driver"
    /\ CanLock(DriverLock(driver(thr[t].h)))
    /\ IF DriverLock(driver(thr[t].h)).poisoned
       THEN /\ Settle(t, Panicked(thr[t]))
            /\ state_lock' = Unwind(state_lock, t)
            /\ UNCHANGED <<driver_lock, driver2_lock>>
       ELSE /\ SetDriverLock(driver(thr[t].h),
                   [DriverLock(driver(thr[t].h)) EXCEPT !.holder = t])
            /\ thr' = [thr EXCEPT ![t].pc = "enable"] /\ UNCHANGED <<last, hist>>
            /\ UNCHANGED state_lock
    /\ adc_lock' =
           IF DriverLock(driver(thr[t].h)).poisoned
           THEN Unwind(adc_lock, t) ELSE adc_lock
    /\ UNCHANGED <<LED_STATE, hw_mask, hw_values, hw2_mask, hw2_values,
                   brightness, calls, config, pin_level, value, adc_channel>>

\* lights.rs:129  driver.enable_leds(led_mask).unwrap()
set_brightness_enable(t) ==
    /\ thr[t].pc = "enable"
    /\ \E ok \in BOOLEAN :
         IF ok
         THEN /\ SetMask(driver(thr[t].h), thr[t].mask)
              /\ thr' = [thr EXCEPT ![t].pc = "output",
                                    ![t].txns = Append(@, "enable")]
              /\ UNCHANGED <<last, hist>>
              /\ UNCHANGED <<state_lock, driver_lock, driver2_lock, adc_lock>>
         ELSE /\ Settle(t,
                     Panicked([thr[t] EXCEPT !.txns = Append(@, "enable"),
                       !.txfail = TRUE]))
              /\ state_lock' = Unwind(state_lock, t)
              /\ driver_lock' = Unwind(driver_lock, t)
              /\ driver2_lock' = Unwind(driver2_lock, t)
              /\ adc_lock' = Unwind(adc_lock, t)
              /\ UNCHANGED <<hw_mask, hw2_mask>>
    /\ UNCHANGED <<LED_STATE, hw_values, hw2_values, brightness, calls,
                   config, pin_level, value, adc_channel>>

\* lights.rs:130-133  driver.output(&values).unwrap(); Ok(()) and the
\* guards dropped at the end of the function.
set_brightness_output(t) ==
    /\ thr[t].pc = "output"
    /\ \E ok \in BOOLEAN :
         IF ok
         THEN /\ SetValues(driver(thr[t].h), thr[t].values)
              /\ Settle(t,
                     Finish([thr[t] EXCEPT !.txns = Append(@, "output"),
                       !.sbres = "ok"]))
              /\ state_lock' = Release(state_lock, t)
              /\ driver_lock' = Release(driver_lock, t)
              /\ driver2_lock' = Release(driver2_lock, t)
              /\ UNCHANGED adc_lock
         ELSE /\ Settle(t,
                     Panicked([thr[t] EXCEPT !.txns = Append(@, "output"),
                       !.txfail = TRUE]))
              /\ state_lock' = Unwind(state_lock, t)
              /\ driver_lock' = Unwind(driver_lock, t)
              /\ driver2_lock' = Unwind(driver2_lock, t)
              /\ adc_lock' = Unwind(adc_lock, t)
              /\ UNCHANGED <<hw_values, hw2_values>>
    /\ UNCHANGED <<LED_STATE, hw_mask, hw2_mask, brightness, calls,
                   config, pin_level, value, adc_channel>>

\* ------------------------------------------------------ peripheral wrappers
\* The Option<LED> each wrapper was constructed with (lib.rs:279-296).
led(o) ==
    IF ~leds_bound THEN None
    ELSE CASE o = "output_1" -> "led_output_1"
           [] o = "input_1"  -> "led_input_1"
           [] o = "analog_1" -> "led_analog_1"
           [] o = "analog_2" -> "led_analog_2"
no_led(r) == IF leds_bound THEN "led_relay_no" ELSE None
nc_led(r) == IF leds_bound THEN "led_relay_nc" ELSE None
\* The ADC channel each analog input was constructed with (lib.rs:380-381).
adc_channel_of(a) ==
    CASE a = "analog_1" -> analog_input_1_channel
      [] a = "analog_2" -> analog_input_2_channel

\* Faulty variant: a wrapper that mirrors its state whatever its flag.
auto_light_ignored(o) == TRUE
\* self._auto_light of wrapper o: every wrapper of the board is constructed
\* with the same flag (lib.rs:298-369).
auto_light_of(o) == auto_light

\* Faulty variant: both levels shown as full brightness.
LevelAlwaysOn(on) == One
\* true => 1.0, false => 0.0
Level(on) == IF on THEN One ELSE 0

\* Faulty variant: the value field never written.
StoreValueNever(o, on) == value
\* self.value = on (digital_output.rs:111, relay.rs:133)
StoreValue(o, on) == [value EXCEPT ![o] = on]

\* Faulty variant: a failed pin read that does not end the call.
ShortCircuitsNever(ok) == FALSE
\* digital_input.rs:85  is_high().map_err(..)?  returns the Err at once.
ShortCircuits(ok) == ~ok

\* A call returns res (and the value ret) to the application.
Return(tr, res, ret) ==
    [tr EXCEPT !.pc = "done", !.res = res, !.ret = ret, !.h = None]

\* digital_output.rs:94-105  write(on): the indicator first.
DigitalOutput_write(t) ==
    \E o \in DigitalOutputs, on \in BOOLEAN :
        /\ CanStart(t)
        /\ ~InUse(o)
        /\ LET c == [NewCall("DigitalOutput_write", o) EXCEPT !.on = on]
           IN IF auto_light_of(o) /\ led(o) # None
              THEN /\ Settle(t, Enter(c, led(o), Level(on)))
                   /\ brightness' = EnterBrightness(led(o), Level(on))
              ELSE /\ Settle(t, [c EXCEPT !.pc = "pin"])
                   /\ UNCHANGED brightness
        /\ calls' = calls + 1
        /\ UNCHANGED <<leds, config, pin_level, value, adc_lock, adc_channel>>

\* digital_output.rs:101-115  the indicator's result, then pin.set_state.
DigitalOutput_write_pin(t) ==
    /\ thr[t].op = "DigitalOutput_write"
    /\ thr[t].pc \in {"sb_ret", "pin"}
    /\ \E ok \in BOOLEAN :
         IF thr[t].pc = "sb_ret" /\ thr[t].sbres = "err"
         THEN /\ Settle(t, Return(thr[t], "err", 0))
              /\ UNCHANGED <<pin_level, value>>
         ELSE IF ok
         THEN /\ pin_level' = [pin_level EXCEPT ![thr[t].obj] = thr[t].on]
              /\ value' = StoreValue(thr[t].obj, thr[t].on)
              /\ Settle(t, Return([thr[t] EXCEPT !.pinset = TRUE], "ok", 0))
         ELSE /\ Settle(t, Return([thr[t] EXCEPT !.iofail = TRUE], "err", 0))
              /\ UNCHANGED <<pin_level, value>>
    /\ UNCHANGED <<leds, brightness, config, adc_lock, adc_channel, calls>>

\* Faulty variant: the NO indicator lit like the NC indicator.
no_brightness_same(open) == IF open THEN 0 ELSE One
\* relay.rs:110-117  the brightness of the NO and of the NC indicator.
no_brightness(open) == IF open THEN One ELSE 0
nc_brightness(open) == IF open THEN 0 ELSE One

\* relay.rs:109-121  write(open): the NO indicator, if auto-light.
Relay_write(t) ==
    \E r \in Relays, open \in BOOLEAN :
        /\ CanStart(t)
        /\ ~InUse(r)
        /\ LET c == [NewCall("Relay_write", r) EXCEPT !.on = open]
           IN IF auto_light_of(r) /\ no_led(r) # None
              THEN /\ Settle(t, Enter(c, no_led(r), no_brightness(open)))
                   /\ brightness' =
                          EnterBrightness(no_led(r), no_brightness(open))
              ELSE IF auto_light_of(r) /\ nc_led(r) # None
              THEN /\ Settle(t, Enter(c, nc_led(r), nc_brightness(open)))
                   /\ brightness' =
                          EnterBrightness(nc_led(r), nc_brightness(open))
              ELSE /\ Settle(t, [c EXCEPT !.pc = "pin"])
                   /\ UNCHANGED brightness
        /\ calls' = calls + 1
        /\ UNCHANGED <<leds, config, pin_level, value, adc_lock, adc_channel>>

\* relay.rs:119-124  let _ = no_led.set(..): the result is dropped; then the
\* NC indicator.
Relay_write_nc(t) ==
    /\ thr[t].op = "Relay_write"
    /\ thr[t].pc = "sb_ret"
    /\ thr[t].h = no_led(thr[t].obj)
    /\ IF nc_led(thr[t].obj) # None
       THEN /\ Settle(t,
                   Enter(thr[t], nc_led(thr[t].obj), nc_brightness(thr[t].on)))
            /\ brightness' = EnterBrightness(nc_led(thr[t].obj),
                                             nc_brightness(thr[t].on))
       ELSE /\ thr' = [thr EXCEPT ![t].pc = "pin"] /\ UNCHANGED <<last, hist>>
            /\ UNCHANGED brightness
    /\ UNCHANGED <<leds, config, pin_level, value, adc_lock, adc_channel,
                   calls>>

\* relay.rs:126-134  pin.set_state, then self.value = open.
Relay_write_pin(t) ==
    /\ thr[t].op = "Relay_write"
    /\ \/ thr[t].pc = "pin"
       \/ thr[t].pc = "sb_ret" /\ thr[t].h = nc_led(thr[t].obj)
    /\ \E ok \in BOOLEAN :
         IF ok
         THEN /\ pin_level' = [pin_level EXCEPT ![thr[t].obj] = thr[t].on]
              /\ value' = StoreValue(thr[t].obj, thr[t].on)
              /\ Settle(t, Return([thr[t] EXCEPT !.pinset = TRUE], "ok", 0))
         ELSE /\ Settle(t, Return([thr[t] EXCEPT !.iofail = TRUE], "err", 0))
              /\ UNCHANGED <<pin_level, value>>
    /\ UNCHANGED <<leds, brightness, config, adc_lock, adc_channel, calls>>

\* digital_input.rs:84-90  read(): pin.is_high()?, then the indicator.
DigitalInput_read(t) ==
    \E i \in DigitalInputs, ok \in BOOLEAN, high \in BOOLEAN :
        /\ CanStart(t)
        /\ ~InUse(i)
        /\ LET c == [NewCall("DigitalInput_read", i) EXCEPT
                        !.on = ok /\ high, !.ret = Level(ok /\ high),
                        !.iofail = ~ok]
           IN IF ShortCircuits(ok)
              THEN /\ Settle(t, Return(c, "err", 0))
                   /\ UNCHANGED brightness
              ELSE IF auto_light_of(i) /\ led(i) # None
              THEN /\ Settle(t, Enter(c, led(i), Level(high)))
                   /\ brightness' = EnterBrightness(led(i), Level(high))
              ELSE /\ Settle(t, Return(c, "ok", Level(high)))
                   /\ UNCHANGED brightness
        /\ calls' = calls + 1
        /\ UNCHANGED <<leds, config, pin_level, value, adc_lock, adc_channel>>

\* digital_input.rs:87-94  an Err of the indicator is printed; Ok(value).
DigitalInput_read_return(t) ==
    /\ thr[t].op = "DigitalInput_read"
    /\ thr[t].pc = "sb_ret"
    /\ Settle(t, Return(thr[t], "ok", thr[t].ret))
    /\ UNCHANGED <<leds, brightness, config, pin_level, value, adc_lock,
                   adc_channel, calls>>

\* analog_input.rs:91  ((value as f64 / 10.0) * 2.048) / self.max_value
Normalize(raw) == raw * FullScale

\* analog_input.rs:71  read() is called on an analog input.
AnalogInput_read(t) ==
    \E a \in AnalogInputs :
        /\ CanStart(t)
        /\ ~InUse(a)
        /\ Settle(t, [NewCall("AnalogInput_read", a) EXCEPT !.pc = "adc_lock"])
        /\ calls' = calls + 1
        /\ UNCHANGED <<leds, brightness, config, pin_level, value, adc_lock,
                       adc_channel>>

\* analog_input.rs:72  self.driver.lock().unwrap()
AnalogInput_read_lock(t) ==
    /\ thr[t].op = "AnalogInput_read"
    /\ thr[t].pc = "adc_lock"
    /\ CanLock(adc_lock)
    /\ IF adc_lock.poisoned
       THEN /\ Settle(t, Panicked(thr[t]))
            /\ UNCHANGED adc_lock
       ELSE /\ thr' = [thr EXCEPT ![t].pc = "adc_select"]
            /\ UNCHANGED <<last, hist>>
            /\ adc_lock' = [adc_lock EXCEPT !.holder = t]
    /\ UNCHANGED <<leds, brightness, config, pin_level, value, adc_channel,
                   calls>>

\* analog_input.rs:73-87  select_channel(..).map_err(..)?
AnalogInput_read_select(t) ==
    /\ thr[t].op = "AnalogInput_read"
    /\ thr[t].pc = "adc_select"
    /\ \E ok \in BOOLEAN :
         IF ok /\ adc_channel_of(thr[t].obj) \in 0 .. (NumAdcChannels - 1)
         THEN /\ adc_channel' = adc_channel_of(thr[t].obj)
              /\ thr' = [thr EXCEPT ![t].pc = "adc_read"] /\ UNCHANGED <<last, hist>>
              /\ UNCHANGED adc_lock
         ELSE /\ Settle(t, Return([thr[t] EXCEPT !.iofail = TRUE], "err", 0))
              /\ adc_lock' = Release(adc_lock, t)
              /\ UNCHANGED adc_channel
    /\ UNCHANGED <<leds, brightness, config, pin_level, value, calls>>

\* analog_input.rs:89-100  driver.read().unwrap(), the normalisation, and
\* the indicator if one is bound.
AnalogInput_read_convert(t) ==
    /\ thr[t].op = "AnalogInput_read"
    /\ thr[t].pc = "adc_read"
    /\ \E ok \in BOOLEAN, raw \in RawValues :
         LET a == thr[t].obj
             v == Normalize(raw)
         IN IF ~ok
            THEN /\ Settle(t, Panicked([thr[t] EXCEPT !.iofail = TRUE]))
                 /\ adc_lock' = Unwind(adc_lock, t)
                 /\ UNCHANGED <<value, brightness>>
            ELSE /\ value' = [value EXCEPT ![a] = v]
                 /\ IF led(a) # None
                    THEN /\ Settle(t, Enter([thr[t] EXCEPT !.ret = v,
                                                           !.rd = v],
                                          led(a), v))
                         /\ brightness' = EnterBrightness(led(a), v)
                         /\ UNCHANGED adc_lock
                    ELSE /\ Settle(t, Return([thr[t] EXCEPT !.rd = v],
                                           "ok", v))
                         /\ adc_lock' = Release(adc_lock, t)
                         /\ UNCHANGED brightness
    /\ UNCHANGED <<leds, config, pin_level, adc_channel, calls>>

\* analog_input.rs:93-99  the indicator's Err is returned, else Ok(value);
\* the ADC guard is dropped at the end of the function.
AnalogInput_read_return(t) ==
    /\ thr[t].op = "AnalogInput_read"
    /\ thr[t].pc = "sb_ret"
    /\ Settle(t,
           IF thr[t].sbres = "err" THEN Return(thr[t], "err", 0)
             ELSE Return(thr[t], "ok", thr[t].ret))
    /\ adc_lock' = Release(adc_lock, t)
    /\ UNCHANGED <<leds, brightness, config, pin_level, value, adc_channel,
                   calls>>

\* The steps of a set_brightness call in progress.
set_brightness(t) ==
    \/ set_brightness_lock_state(t)
    \/ set_brightness_lock_driver(t)
    \/ set_brightness_enable(t)
    \/ set_brightness_output(t)

\* The board: threads calling the peripheral wrappers.
Next ==
    \E t \in Threads :
        \/ set_brightness(t)
        \/ DigitalOutput_write(t)
        \/ DigitalOutput_write_pin(t)
        \/ Relay_write(t)
        \/ Relay_write_nc(t)
        \/ Relay_write_pin(t)
        \/ DigitalInput_read(t)
        \/ DigitalInput_read_return(t)
        \/ AnalogInput_read(t)
        \/ AnalogInput_read_lock(t)
        \/ AnalogInput_read_select(t)
        \/ AnalogInput_read_convert(t)
        \/ AnalogInput_read_return(t)

Spec == Init /\ [][Next]_vars

\* The LED handles alone: threads calling the methods of LED handles the
\* application made itself.
LedNext ==
    \E t \in Threads :
        \/ LED_on(t)
        \/ LED_off(t)
        \/ LED_toggle(t)
        \/ LED_set_brightness(t)
        \/ LED_set(t)
        \/ set_brightness(t)

LedInit == Init /\ auto_light = TRUE /\ leds_bound = TRUE
LedSpec == LedInit /\ [][LedNext]_vars

\* ------------------------------------------- handles: clone, drop, drivers
\* Brightness arguments of the calls on the further handles.
HandleArgs == {Half, One}

\* lights.rs:151-160  clone(): a new handle of the same driver and channel,
\* with the brightness the original has at that moment.
LED_clone(t) ==
    /\ CanStart(t)
    /\ "led_user_1" \in live /\ "led_user_1_clone" \notin live
    /\ ~InUse("led_user_1")
    /\ live' = live \cup {"led_user_1_clone"}
    /\ brightness' =
           [brightness EXCEPT !["led_user_1_clone"] = brightness["led_user_1"]]
    /\ Settle(t, Return(NewCall("clone", "led_user_1_clone"), "ok", 0))
    /\ calls' = calls + 1
    /\ UNCHANGED <<leds, auto_light, leds_bound, pin_level, value, adc_lock,
                   adc_channel>>

\* lights.rs:19-28  a handle goes out of scope: LED has no Drop impl, its
\* fields are freed and nothing else happens.
LED_drop(t) ==
    \E h \in HandleLeds \cap live :
        /\ CanStart(t)
        /\ ~InUse(h)
        /\ live' = live \ {h}
        /\ Settle(t, Return(NewCall("drop", h), "ok", 0))
        /\ calls' = calls + 1
        /\ UNCHANGED <<leds, brightness, auto_light, leds_bound, pin_level,
                       value, adc_lock, adc_channel>>

\* lights.rs:144-146 and 79-85, on any of the further handles.
Handle_set(t) ==
    \E h \in HandleLeds, v \in HandleArgs : LedCall(t, h, "set", v)
Handle_toggle(t) ==
    \E h \in HandleLeds : LedCall(t, h, "toggle", ToggleTarget(brightness[h]))

HandleNext ==
    \E t \in Threads :
        \/ LED_clone(t)
        \/ LED_drop(t)
        \/ Handle_set(t)
        \/ Handle_toggle(t)
        \/ set_brightness(t)

HandleSpec == LedInit /\ [][HandleNext]_vars

\* ------------------------------------------------- all calls, with fairness
\* A thread calls a wrapper of the board or sets an LED handle.
Start(t) ==
    /\ calls < MaxLockCalls
    /\ \/ AnalogInput_read(t)
       \/ DigitalInput_read(t)
       \/ DigitalOutput_write(t)
       \/ Relay_write(t)
       \/ LED_set(t)

\* A thread goes on with the call it is in.
Step(t) ==
    \/ set_brightness(t)
    \/ DigitalOutput_write_pin(t)
    \/ Relay_write_nc(t)
    \/ Relay_write_pin(t)
    \/ DigitalInput_read_return(t)
    \/ AnalogInput_read_lock(t)
    \/ AnalogInput_read_select(t)
    \/ AnalogInput_read_convert(t)
    \/ AnalogInput_read_return(t)

LockNext == \E t \in Threads : Start(t) \/ Step(t)

\* Every bus transaction returns and every thread is scheduled: a thread that
\* can go on with its call does.
LockSpec ==
    LedInit /\ [][LockNext]_vars /\ \A t \in Threads : WF_vars(Step(t))

\* ------------------------------------------------------------------ claims
Bit(m, k) == (m \div Pow2(k)) % 2
InCritical(t) == thr[t].pc \in {"lock_driver", "enable", "output"}
\* The brightness handle h held before the call that has not yet taken the
\* lock of LED_STATE, else its brightness.
Settled(h) ==
    IF \E t \in Threads : thr[t].h = h /\ thr[t].pc = "lock_state"
    THEN thr[CHOOSE t \in Threads :
                 thr[t].h = h /\ thr[t].pc = "lock_state"].b0
    ELSE brightness[h]
\* The byte channel c is expected to show: that of the last set made through
\* the channel's handle, 0 for a channel no handle has set.
Expected(c) ==
    IF \E h \in UserLeds : channel(h) = c
    THEN ToByte(Settled(CHOOSE h \in UserLeds : channel(h) = c))
    ELSE 0
NoFailure == ~state_lock.poisoned /\ ~driver_lock.poisoned

\* C1: whenever no set_brightness call is inside the locked section and none
\* has failed, the 18 bytes programmed into the LED driver hold, at every
\* channel, the byte of the last set made on that channel, and 0 at every
\* channel never set: no earlier channel's value is lost by a later flush.
C1_FlushHoldsEveryChannel ==
    (state_lock.holder = None /\ NoFailure) =>
        \A c \in Channels : hw_values[c] = Expected(c)
C1_Witness ==
    /\ state_lock.holder = None /\ NoFailure
    /\ last.res = "ok" /\ last.obj = "led_user_2"
    /\ hw_values[user_led_1] = ToByte(Half)
    /\ hw_values[user_led_2] = max_brightness

\* C2: the locked sections of concurrent set_brightness calls exclude each
\* other: at most one call is between its state update and its output; while
\* it is, the channel state is the one it computed its buffer from and, after
\* its enable, the mask in the hardware is its own; and once every call has
\* returned, each channel holds the byte of its handle's last call and the
\* hardware holds the whole channel state.
C2_MutualExclusion ==
    /\ \A t, u \in Threads : InCritical(t) /\ InCritical(u) => t = u
    /\ \A t \in Threads :
          InCritical(t) =>
             /\ thr[t].values = ValuesOf(LED_STATE, channel(thr[t].h))
             /\ thr[t].pc = "output" => hw_mask = thr[t].mask
    /\ (\A t \in Threads : AtRest(t)) =>
          /\ \A h \in UserLeds :
                ByteOf(LED_STATE, channel(h)) = ToByte(brightness[h])
          /\ \A c \in Channels : hw_values[c] = ByteOf(LED_STATE, c)
          /\ \A c \in Channels :
                Bit(hw_mask, c) = (IF ByteOf(LED_STATE, c) > 0 THEN 1 ELSE 0)
C2_Witness ==
    /\ thr["t1"].pc = "output" /\ thr["t2"].pc = "lock_state"
    /\ thr["t1"].h # thr["t2"].h
    /\ LED_STATE # << >>

\* A brightness outside [0.0, 1.0].
OutOfRange(b) == b < 0 \/ b > One

\* C3: a set_brightness or set call with a brightness below 0.0 or above 1.0
\* returns an error at once: it never enters the body of the call, the
\* channel state, the handles' brightness and the hardware are unchanged,
\* and it issues no enable and no output transaction.
C3_OutOfRangeRejected ==
    [][calls' = calls + 1 =>
         /\ \A t \in Threads :
               (thr'[t] # thr[t] /\ thr'[t].h # None) =>
                  ~OutOfRange(thr'[t].b)
         /\ (thr' = thr /\ last'.op \in LedMethods
                /\ OutOfRange(last'.b)) =>
               /\ last'.res = "err"
               /\ last'.txns = << >>
               /\ LED_STATE' = LED_STATE
               /\ brightness' = brightness
               /\ hw_mask' = hw_mask /\ hw_values' = hw_values]_vars
C3_Witness ==
    /\ last.op = "set" /\ last.b > One /\ last.res = "err"
    /\ LED_STATE # << >>
    /\ calls = 2

\* C4: a set_brightness call whose enable or output transaction fails
\* returns an error to its caller (its thread goes on), and the channel
\* state keeps the byte the call recorded.
C4_TransportFailureReturned ==
    /\ \A t \in Threads :
          thr[t].txfail =>
             /\ thr[t].pc # "panicked"
             /\ ByteOf(LED_STATE, channel(thr[t].h)) = ToByte(thr[t].b)
    /\ last.txfail => last.res = "err"

\* C5: DigitalOutput::write with auto-light and an indicator bound drives
\* the pin only after the indicator update has succeeded; an indicator
\* update that fails makes write return the error (the thread goes on),
\* with the pin not driven and value unchanged.
C5_OutputIndicatorFirst ==
    /\ \A t \in Threads :
          (thr[t].op = "DigitalOutput_write" /\ thr[t].txfail) =>
             /\ thr[t].pc # "panicked"
             /\ ~thr[t].pinset
    /\ (last.op = "DigitalOutput_write" /\ auto_light /\ leds_bound) =>
          /\ last.pinset => last.sbres = "ok"
          /\ last.txfail => (last.res = "err" /\ ~last.pinset)

\* C6: a transport failure while Relay::write updates an indicator does not
\* keep the pin from being driven: a write that met one has driven its pin
\* to high iff open when it ends.
C6_RelayPinDespiteIndicator ==
    /\ \A t \in Threads :
          (thr[t].op = "Relay_write" /\ thr[t].txfail
              /\ thr[t].pc = "panicked") =>
             /\ thr[t].pinset
             /\ pin_level[thr[t].obj] = thr[t].on
    /\ (last.op = "Relay_write" /\ last.txfail) => last.res = "ok"

\* C7: after a Relay::write(open) that returned Ok with auto-light on and
\* both indicators bound, the NO channel is at 255 and the NC channel at 0
\* if open, the inverse if not, in the channel state and in the hardware,
\* and the pin is high iff open: never both indicators on or both off.
C7_RelayIndicators ==
    (/\ last.op = "Relay_write" /\ last.res = "ok"
     /\ auto_light /\ leds_bound
     /\ ~InUse(last.obj)) =>
        LET no == IF last.on THEN max_brightness ELSE 0
            nc == IF last.on THEN 0 ELSE max_brightness
        IN /\ relay_1_no_led \in DOMAIN LED_STATE
           /\ relay_1_nc_led \in DOMAIN LED_STATE
           /\ LED_STATE[relay_1_no_led] = no
           /\ LED_STATE[relay_1_nc_led] = nc
           /\ no # nc
           /\ hw_values[relay_1_no_led] = no
           /\ hw_values[relay_1_nc_led] = nc
           /\ Bit(hw_mask, relay_1_no_led) = (IF last.on THEN 1 ELSE 0)
           /\ Bit(hw_mask, relay_1_nc_led) = (IF last.on THEN 0 ELSE 1)
           /\ brightness["led_relay_no"] = Level(last.on)
           /\ brightness["led_relay_nc"] = Level(~last.on)
           /\ pin_level[last.obj] = last.on
           /\ value[last.obj] = last.on
C7_Witness ==
    /\ last.op = "Relay_write" /\ last.res = "ok" /\ ~last.on
    /\ auto_light /\ leds_bound /\ ~InUse(last.obj)
    /\ hw_values[relay_1_nc_led] = max_brightness
    /\ calls = 2

\* C8: a DigitalInput::read whose pin read succeeded and whose indicator
\* update failed returns an error (the thread goes on) instead of the value.
C8_InputIndicatorFailure ==
    /\ \A t \in Threads :
          (thr[t].op = "DigitalInput_read" /\ thr[t].txfail) =>
             thr[t].pc # "panicked"
    /\ (last.op = "DigitalInput_read"
           /\ (last.txfail \/ last.sbres = "err")) => last.res = "err"

\* C9: an AnalogInput::read whose reading normalises above 1.0 returns
\* Ok with that value, also when an indicator is bound.
C9_AnalogUnclamped ==
    (last.op = "AnalogInput_read" /\ last.rd > One) =>
        (last.res = "ok" /\ last.ret = last.rd)

\* Handle h has returned from two toggle calls in a row, both Ok.
TwoToggles(h) ==
    /\ Len(hist[h]) = 2
    /\ \A i \in 1 .. 2 : hist[h][i].op = "toggle" /\ hist[h][i].res = "ok"

\* C10 as stated: two consecutive successful toggles restore the brightness
\* of the handle and the byte of its channel, whatever the brightness was.
C10_ToggleTwiceRestores ==
    \A h \in UserLeds :
        (TwoToggles(h) /\ ~InUse(h)) =>
            /\ brightness[h] = hist[h][1].b0
            /\ ByteOf(LED_STATE, channel(h)) = hist[h][1].y0

\* C10 amended: two consecutive successful toggles restore the brightness
\* and the channel byte of a handle that was at 0.0 or at 1.0 (its channel
\* byte agreeing); from a brightness strictly between, they end at 1.0.
C10_ToggleTwiceRestoresOnOff ==
    \A h \in UserLeds :
        (TwoToggles(h) /\ ~InUse(h)
            /\ hist[h][1].y0 = ToByte(hist[h][1].b0)) =>
            IF hist[h][1].b0 \in {0, One}
            THEN /\ brightness[h] = hist[h][1].b0
                 /\ ByteOf(LED_STATE, channel(h)) = hist[h][1].y0
            ELSE /\ brightness[h] = One
                 /\ ByteOf(LED_STATE, channel(h)) = max_brightness
C10_Witness ==
    \E h \in UserLeds :
        /\ TwoToggles(h) /\ ~InUse(h)
        /\ hist[h][1].b0 = One
        /\ brightness[h] = One

\* C11: a DigitalInput::read whose pin read fails returns an error at once:
\* it never goes on into the indicator update, it issues no LED driver
\* transaction, and the channel state, the handles' brightness and the LED
\* hardware are as they were before the call.
C11_InputReadFailureShortCircuits ==
    [][/\ \A t \in Threads :
             thr'[t].op = "DigitalInput_read" => ~thr'[t].iofail
       /\ (calls' = calls + 1 /\ thr' = thr
              /\ last'.op = "DigitalInput_read" /\ last'.iofail) =>
             /\ last'.res = "err"
             /\ last'.txns = << >> /\ last'.sbres = None
             /\ LED_STATE' = LED_STATE
             /\ brightness' = brightness
             /\ hw_mask' = hw_mask /\ hw_values' = hw_values]_vars
C11_Witness ==
    /\ last.op = "DigitalInput_read" /\ last.iofail /\ last.res = "err"
    /\ auto_light /\ leds_bound
    /\ input_1_led \in DOMAIN LED_STATE
    /\ hw_values[input_1_led] = max_brightness

\* C12: after a DigitalInput::read that returned Ok(v) with auto-light on
\* and an indicator bound, the indicator's channel shows v: byte 255 and
\* mask bit set if v is true, byte 0 and mask bit clear if v is false, in
\* the channel state and in the hardware; and the indicator is updated
\* after the pin was read, with the level that was read.
C12_InputIndicatorMirrors ==
    /\ \A t \in Threads :
          (thr[t].op = "DigitalInput_read" /\ thr[t].h # None) =>
             /\ ~thr[t].iofail
             /\ thr[t].b = (IF thr[t].on THEN One ELSE 0)
    /\ (/\ last.op = "DigitalInput_read" /\ last.res = "ok"
        /\ auto_light /\ leds_bound
        /\ ~InUse(last.obj)) =>
          LET y == IF last.on THEN max_brightness ELSE 0
          IN /\ ~last.iofail
             /\ last.txns = <<"enable", "output">>
             /\ last.ret = (IF last.on THEN One ELSE 0)
             /\ input_1_led \in DOMAIN LED_STATE
             /\ LED_STATE[input_1_led] = y
             /\ hw_values[input_1_led] = y
             /\ Bit(hw_mask, input_1_led) = (IF last.on THEN 1 ELSE 0)
             /\ brightness["led_input_1"] = (IF last.on THEN One ELSE 0)
C12_Witness ==
    /\ last.op = "DigitalInput_read" /\ last.res = "ok" /\ ~last.on
    /\ auto_light /\ leds_bound /\ ~InUse(last.obj)
    /\ last.txns = <<"enable", "output">>
    /\ hw_values[input_1_led] = 0
    /\ Bit(hw_mask, input_1_led) = 0
    /\ hw_mask > 0

Writes == {"DigitalOutput_write", "Relay_write"}

\* C13: the value field of a DigitalOutput and of a Relay is false after
\* construction and changes only when a write on that wrapper returns Ok,
\* which sets it to the argument of that write: it is always the argument
\* of the most recent write that returned Ok. A write whose pin transaction
\* fails returns an error and leaves value as it was.
C13_ValueIsLastOkWrite ==
    /\ calls = 0 => \A o \in DigitalOutputs \cup Relays : value[o] = FALSE
    /\ [][\A o \in DigitalOutputs \cup Relays :
             LET returned ==
                     \E t \in Threads :
                         /\ thr[t].obj = o /\ thr[t].op \in Writes
                         /\ thr'[t] # thr[t] /\ thr'[t].pc \in {"idle", "done"}
             IN /\ (returned /\ last'.res = "ok") =>
                      (value'[o] = last'.on /\ ~last'.iofail)
                /\ (returned /\ last'.iofail) =>
                      (last'.res = "err" /\ value'[o] = value[o])
                /\ ~(returned /\ last'.res = "ok") => value'[o] = value[o]]_vars
C13_Witness ==
    /\ last.op = "Relay_write" /\ last.iofail /\ last.res = "err" /\ ~last.on
    /\ value["relay_1"] = TRUE
    /\ value["output_1"] = TRUE

Mirroring == {"DigitalInput_read", "DigitalOutput_write", "Relay_write"}

\* C14: with auto-light disabled, a DigitalInput::read, DigitalOutput::write
\* or Relay::write never updates an indicator, bound or not: the call never
\* enters set_brightness and issues no LED driver transaction, and every
\* step of it leaves the channel state, the cached brightness of every
\* handle and the LED hardware unchanged.
C14_NoAutoLightNoIndicator ==
    [][~auto_light =>
         /\ \A t \in Threads :
               thr'[t].op \in Mirroring =>
                  /\ thr'[t].h = None /\ thr'[t].txns = << >>
                  /\ thr'[t].pc \notin {"lock_state", "lock_driver",
                                        "enable", "output", "sb_ret"}
         /\ last'.op \in Mirroring =>
               (last'.txns = << >> /\ last'.sbres = None)
         /\ (\E t \in Threads :
                 /\ thr'[t] # thr[t]
                 /\ thr[t].op \in Mirroring \/ thr'[t].op \in Mirroring
                 /\ thr[t].op \in Mirroring \cup {None}) =>
               /\ LED_STATE' = LED_STATE
               /\ brightness' = brightness
               /\ hw_mask' = hw_mask /\ hw_values' = hw_values
         /\ (calls' = calls + 1 /\ thr' = thr /\ last'.op \in Mirroring) =>
               /\ LED_STATE' = LED_STATE
               /\ brightness' = brightness
               /\ hw_mask' = hw_mask /\ hw_values' = hw_values]_vars
C14_Witness ==
    /\ ~auto_light /\ leds_bound
    /\ last.op = "Relay_write" /\ last.res = "ok" /\ last.on
    /\ pin_level["relay_1"] = TRUE
    /\ relay_1_no_led \notin DOMAIN LED_STATE
    /\ LED_STATE # << >>
    /\ calls = 3
    /\ value["output_1"] = TRUE

\* A call of AnalogInput::read is between taking the ADC driver and its
\* conversion read.
InAdc(t) ==
    thr[t].op = "AnalogInput_read" /\ thr[t].pc \in {"adc_select", "adc_read"}

\* C15: channel-select and conversion-read of an AnalogInput::read form one
\* critical section: at most one call is between its select and its read,
\* and while a call waits for its conversion the multiplexer is on the
\* channel that call selected, so its reading is taken from that channel.
C15_AdcCriticalSection ==
    /\ \A t, u \in Threads : (InAdc(t) /\ InAdc(u)) => t = u
    /\ \A t \in Threads :
          InAdc(t) => adc_lock.holder = t
    /\ \A t \in Threads :
          (thr[t].op = "AnalogInput_read" /\ thr[t].pc = "adc_read") =>
             adc_channel = adc_channel_of(thr[t].obj)
C15_Witness ==
    /\ thr["t1"].op = "AnalogInput_read" /\ thr["t1"].pc = "adc_read"
    /\ thr["t2"].op = "AnalogInput_read" /\ thr["t2"].pc = "adc_lock"
    /\ thr["t1"].obj = "analog_1" /\ thr["t2"].obj = "analog_2"
    /\ last.op = "AnalogInput_read" /\ last.obj = "analog_2"
    /\ adc_channel = analog_input_1_channel

\* C16: an AnalogInput::read that fails before it has a reading (its channel
\* select or its conversion read fails) returns an error value to its
\* caller (the thread goes on), without having reached the indicator and
\* with the stored value as it was.
C16_AnalogFailureReturned ==
    /\ \A t \in Threads :
          (thr[t].op = "AnalogInput_read" /\ thr[t].iofail) =>
             thr[t].pc # "panicked"
    /\ (last.op = "AnalogInput_read" /\ last.iofail) =>
          (last.res = "err" /\ last.txns = << >> /\ last.sbres = None)

\* round(b * 255), to the nearest integer.
Rounded(b) == (2 * b * max_brightness + One) \div (2 * One)

\* C17: the byte a set_brightness(b) call with b in [0.0, 1.0] stores in the
\* channel state and puts in its buffer is round(b * 255), b * 255 rounded
\* to the nearest integer: 128 for b = 0.5.
C17_ByteIsRounded ==
    \A t \in Threads :
        InCritical(t) =>
            /\ ByteOf(LED_STATE, channel(thr[t].h)) = Rounded(thr[t].b)
            /\ thr[t].values[channel(thr[t].h)] = Rounded(thr[t].b)

\* C18: in every flush of set_brightness, bit k of the enable mask is set
\* iff byte k of the buffer of the same call is nonzero, for k in 0..17,
\* and bits 18..31 are clear; the mask an enable transaction programs is
\* that mask, and once the call has returned the mask and the bytes in the
\* hardware agree in the same way.
C18_MaskMatchesBuffer ==
    /\ \A t \in Threads :
          InCritical(t) =>
             /\ \A k \in Channels :
                   Bit(thr[t].mask, k) =
                       (IF thr[t].values[k] # 0 THEN 1 ELSE 0)
             /\ thr[t].mask >= 0
             /\ thr[t].mask \div Pow2(NumChannels) = 0
             /\ thr[t].pc = "output" => hw_mask = thr[t].mask
    /\ (state_lock.holder = None /\ NoFailure) =>
          /\ \A k \in Channels :
                Bit(hw_mask, k) = (IF hw_values[k] # 0 THEN 1 ELSE 0)
          /\ hw_mask \div Pow2(NumChannels) = 0
C18_Witness ==
    /\ thr["t1"].pc = "output"
    /\ thr["t1"].values[user_led_1] > 0
    /\ thr["t1"].values[user_led_2] = 0
    /\ user_led_2 \in DOMAIN LED_STATE
    /\ hw_mask = Pow2(user_led_1)
    /\ hw_values[user_led_2] > 0

\* C19: a set_brightness call with a valid brightness issues one enable
\* transaction and then one output transaction, and nothing else: a call
\* that has ended, by returning or by unwinding, has issued enable and
\* output, or enable alone if the enable failed, and a call about to issue
\* its output has issued one enable.
C19_OneEnableThenOutput ==
    /\ \A t \in Threads :
          /\ thr[t].pc = "output" => thr[t].txns = <<"enable">>
          /\ (thr[t].pc = "panicked" /\ thr[t].h # None) =>
                /\ thr[t].txfail
                /\ thr[t].txns \in {<<"enable">>, <<"enable", "output">>}
    /\ (last.op \in LedMethods /\ ~OutOfRange(last.b) /\ last.op # None) =>
          last.txns = <<"enable", "output">>

\* An earlier set_brightness call has failed in the transport.
Failed == \E u \in Threads : thr[u].txfail

\* C20: after a set_brightness call has failed in the transport, a later
\* call is served like any other: it takes the channel state and the
\* driver, and when its transactions succeed it returns Ok with the whole
\* channel state in the hardware, the byte recorded by the failed call
\* included.
C20_ConvergesAfterFailure ==
    [][\A t \in Threads :
          /\ (Failed /\ thr[t].pc \in {"lock_state", "lock_driver"}
                 /\ thr'[t] # thr[t]) =>
                thr'[t].pc \in {"lock_driver", "enable"}
          /\ (Failed /\ thr[t].pc = "output" /\ thr'[t].pc = "idle") =>
                /\ last'.res = "ok"
                /\ \A c \in Channels : hw_values'[c] = ByteOf(LED_STATE', c)
                /\ \A u \in Threads :
                      thr[u].txfail =>
                         hw_values'[channel(thr[u].h)] = ToByte(thr[u].b)]_vars

\* Some handle of channel c exists.
HasLiveHandle(c) == \E h \in live : channel(h) = c

\* C21 (invariant I2): a channel is in the channel state only while a handle
\* of that channel exists; a channel whose handles have all been dropped is
\* not in the channel state, and its byte in the buffer of every call that
\* holds the channel state is 0.
C21_OnlyLiveChannels ==
    /\ \A c \in DOMAIN LED_STATE : HasLiveHandle(c)
    /\ \A t \in Threads :
          InCritical(t) =>
             \A c \in Channels : ~HasLiveHandle(c) => thr[t].values[c] = 0

\* Some handle created on driver d has channel c.
HandleOn(d, c) == \E h \in Leds : driver(h) = d /\ channel(h) = c

\* C22: handles created on two driver instances are independent: what is
\* programmed into a driver depends only on the sets made through its own
\* handles, so a channel none of its handles has stays at byte 0 with its
\* mask bit clear, whatever is set through the other driver's handles.
C22_DriversIndependent ==
    \A c \in Channels :
        /\ ~HandleOn("second", c) =>
              (hw2_values[c] = 0 /\ Bit(hw2_mask, c) = 0)
        /\ ~HandleOn("board", c) =>
              (hw_values[c] = 0 /\ Bit(hw_mask, c) = 0)

\* C23: a set_brightness call on a handle whose channel is outside 0..17
\* reports an error instead of returning success: it never returns Ok, and
\* the error is not a transport failure.
C23_BeyondChannelReported ==
    (last.obj \in HandleLeds /\ last.op \in LedMethods
        /\ channel(last.obj) \notin Channels /\ ~OutOfRange(last.b)) =>
        (last.res = "err" /\ ~last.txfail)

\* The duplicates of one handle.
Dups == {"led_user_1", "led_user_1_clone"}

\* C24: the duplicates of a handle address one channel and keep their own
\* cached brightness: the cached brightness of a duplicate changes only when
\* a call on that duplicate starts (or when it is created, as a copy); a
\* set(v) on a duplicate stores the byte of v in the shared channel and leaves
\* the other duplicate's cached brightness as it was; and toggle() on a
\* duplicate turns on iff that duplicate's own cached brightness is 0.0,
\* whatever byte the channel holds.
C24_ClonesIndependent ==
    [][\A d \in Dups :
          /\ brightness'[d] # brightness[d] =>
                /\ calls' = calls + 1
                /\ \/ \E t \in Threads :
                         thr[t].pc = "idle" /\ thr'[t].obj = d
                   \/ (last'.op = "clone" /\ last'.obj = d
                          /\ d \notin live /\ d \in live')
          /\ \A t \in Threads :
                (thr[t].h = d /\ thr[t].pc = "lock_state"
                    /\ thr'[t].pc = "lock_driver") =>
                   /\ channel(d) \in DOMAIN LED_STATE'
                   /\ LED_STATE'[channel(d)] = ToByte(thr[t].b)
                   /\ brightness' = brightness
          /\ \A t \in Threads :
                (thr[t].pc = "idle" /\ thr'[t].obj = d
                    /\ thr'[t].op = "toggle") =>
                   thr'[t].b = (IF brightness[d] = 0 THEN One ELSE 0)]_vars
C24_Witness ==
    /\ Dups \subseteq live
    /\ last.op = "toggle" /\ last.obj = "led_user_1_clone" /\ last.res = "ok"
    /\ last.b0 = 0 /\ last.y0 = ToByte(Half) /\ last.b = One
    /\ brightness["led_user_1"] = Half
    /\ brightness["led_user_1_clone"] = One
    /\ LED_STATE[user_led_1] = max_brightness

\* Thread t holds mutex l.
Holds(l, t) == l.holder = t
\* The call of thread t has ended: it returned, or it unwound in a panic.
Ended(t) == thr[t].pc \in {"idle", "panicked"}

\* The mutexes are taken in the order ADC driver, LED_STATE, LED driver: a
\* thread waiting for one holds none that comes after it.
LockOrder ==
    \A t \in Threads :
        /\ thr[t].pc = "adc_lock" =>
              (~Holds(adc_lock, t) /\ ~Holds(state_lock, t)
                 /\ ~Holds(driver_lock, t) /\ ~Holds(driver2_lock, t))
        /\ thr[t].pc = "lock_state" =>
              (~Holds(state_lock, t)
                 /\ ~Holds(driver_lock, t) /\ ~Holds(driver2_lock, t))
        /\ thr[t].pc = "lock_driver" =>
              (Holds(state_lock, t)
                 /\ ~Holds(driver_lock, t) /\ ~Holds(driver2_lock, t))
        /\ (Holds(driver_lock, t) \/ Holds(driver2_lock, t)) =>
              Holds(state_lock, t)
        /\ Ended(t) =>
              (~Holds(adc_lock, t) /\ ~Holds(state_lock, t)
                 /\ ~Holds(driver_lock, t) /\ ~Holds(driver2_lock, t))

\* C25: the locks are always taken in the order ADC driver, LED_STATE, LED
\* driver, and no deadlock is reachable: with every bus transaction returning
\* and every thread scheduled, every call of AnalogInput::read,
\* DigitalInput::read, DigitalOutput::write, Relay::write and LED::set that
\* has started eventually ends (it returns, or it unwinds where a
\* transaction failed).
C25_NoDeadlock ==
    /\ []LockOrder
    /\ \A t \in Threads : (~Ended(t)) ~> Ended(t)
C25_Witness ==
    /\ thr["t1"].op = "AnalogInput_read" /\ thr["t1"].pc = "enable"
    /\ Holds(adc_lock, "t1") /\ Holds(state_lock, "t1")
    /\ Holds(driver_lock, "t1")
    /\ thr["t2"].op = "set" /\ thr["t2"].pc = "lock_state"

\* The cached brightness of handle h and the channel state agree.
Agree(h) ==
    IF channel(h) \in DOMAIN LED_STATE
    THEN LED_STATE[channel(h)] = ToByte(brightness[h])
    ELSE brightness[h] = 0

BoardLeds == Leds \ (UserLeds \cup HandleLeds)

\* C27: for every board variant AutomationHAT::new gives each LED handle it
\* creates a channel in 0..17 and gives no channel to two indicators, so the
\* indicator handles of the wrappers have pairwise distinct channels and two
\* wrappers updating their indicators at the same time never write the same
\* channel.
C27_ChannelsDistinct ==
    /\ \A hat_type \in HatTypes :
          LET assigned == led_channels(hat_type)
          IN /\ \A p \in DOMAIN assigned : assigned[p] \in Channels
             /\ \A p, q \in DOMAIN assigned :
                   p # q => assigned[p] # assigned[q]
    /\ \A g, h \in BoardLeds :
          /\ \E p \in DOMAIN led_channels("AutomationHAT") :
                led_channels("AutomationHAT")[p] = channel(h)
          /\ g # h => channel(g) # channel(h)
    /\ \A t, u \in Threads :
          (thr[t].h \in BoardLeds /\ thr[u].h \in BoardLeds
              /\ thr[t].obj # thr[u].obj) =>
             channel(thr[t].h) # channel(thr[u].h)
C27_Witness ==
    /\ thr["t1"].op = "Relay_write" /\ thr["t1"].pc = "output"
    /\ thr["t1"].h = "led_relay_nc"
    /\ thr["t2"].op = "DigitalInput_read" /\ thr["t2"].pc = "lock_state"
    /\ LED_STATE[relay_1_no_led] = max_brightness
    /\ LED_STATE[relay_1_nc_led] = 0
    /\ input_1_led \notin DOMAIN LED_STATE
====
